---- MODULE Spec2Model ----
(***************************************************************************)
(* QuestionnaireControl (ask-sdk-controls): the turn-dispatch and          *)
(* initiative state machine of one control instance.                       *)
(*                                                                         *)
(* The state is the control's serializable state (state.value,             *)
(* state.focusQuestionId, state.activeInitiative), the two private fields  *)
(* handleFunc / initiativeFunc that canHandle() / canTakeInitiative() bind *)
(* for handle() / takeInitiative(), and the merged props.  The caller (the *)
(* runtime) delivers one input per turn and invokes the public methods.    *)
(***************************************************************************)
EXTENDS Integers, Sequences, FiniteSets, TLC

\* ------------------------------------------------------------------------
\* Bounds of the model
\* ------------------------------------------------------------------------

\* longest list of caller-supplied input handlers (customHandlingFuncs)
MaxCustom == 2

\* ------------------------------------------------------------------------
\* JavaScript values
\* ------------------------------------------------------------------------

\* the JavaScript value undefined, for string-valued fields
Undefined == "undefined"

\* a string value stored as an answerId
Str(s) == [type |-> "string", val |-> s]

\* a Choice object {id: c} stored where a string was expected
ChoiceObject(c) == [type |-> "object", val |-> c]

\* the value undefined in an answerId position
UndefinedValue == [type |-> "undefined", val |-> Undefined]

\* ------------------------------------------------------------------------
\* Questionnaire content and props
\* ------------------------------------------------------------------------

\* the questions of the demo skill, each with the targets / actions it registers
DemoQuestions ==
    << [id |-> "cough",    targets |-> {"cough"},    actions |-> {}],
       [id |-> "headache", targets |-> {"headache"}, actions |-> {}] >>

\* the choices of the demo skill
DemoChoices == << [id |-> "often"], [id |-> "rarely"] >>

\* question lists a control is configured with
QuestionLists == { << >>, DemoQuestions }

\* values the caller may give for choiceForYesUtterance
YesChoiceValues == { Undefined, "often", "rarely" }

\* values the caller may give for the completion prop: none, or a function
\* that accepts every state
CompletionFuncs == { Undefined, "callerAlwaysTrue" }

\* values the caller may give for an optional boolean prop
RawBooleans == { Undefined, "true", "false" }

\* caller-supplied input handlers: the feedback they claim and what handle does
CustomHandlerPool ==
    { [name |-> "custom::AffirmPrompt", feedback |-> "affirm",    effect |-> "initiativeAct"],
      [name |-> "custom::Deny",         feedback |-> "disaffirm", effect |-> "recordAtRisk"],
      [name |-> "custom::Any",          feedback |-> "any",       effect |-> "contentAct"] }

\* the element type of a sequence is the set of values at its indexes
Range(s) == { s[i] : i \in DOMAIN s }

\* lists of distinct handlers of the pool, at most n long
RECURSIVE HandlerLists(_)
HandlerLists(n) ==
    IF n = 0 THEN { << >> }
    ELSE LET shorter == HandlerLists(n - 1)
         IN  shorter \cup
             { Append(q[1], q[2]) :
                 q \in { r \in shorter \X CustomHandlerPool :
                           Len(r[1]) = n - 1 /\ r[2] \notin Range(r[1]) } }

\* the props a caller may construct the control with
RawProps ==
    [ questionnaireData :
        [ isFunction : BOOLEAN,
          questions : QuestionLists,
          choices : { DemoChoices },
          choiceForYesUtterance : YesChoiceValues ],
      completion : CompletionFuncs,
      required : RawBooleans,
      answerConfirmationRequired : RawBooleans,
      customHandlingFuncs : HandlerLists(MaxCustom) ]

\* _.merge(defaults, props): a prop the caller left undefined keeps its default;
\* a questionnaireData function replaces the default object as a whole, a
\* questionnaireData object is merged into it field by field
mergeWithDefaultProps(raw) ==
    [ questionnaireData |->
        IF raw.questionnaireData.isFunction
        THEN raw.questionnaireData
        ELSE [ raw.questionnaireData EXCEPT
                 !.choiceForYesUtterance = IF @ = Undefined THEN "dummy" ELSE @ ],
      completion |->
        IF raw.completion = Undefined THEN "default" ELSE raw.completion,
      required |->
        IF raw.required = Undefined THEN TRUE ELSE raw.required = "true",
      answerConfirmationRequired |->
        IF raw.answerConfirmationRequired = Undefined
        THEN FALSE ELSE raw.answerConfirmationRequired = "true",
      inputHandling |-> [ customHandlingFuncs |-> raw.customHandlingFuncs ] ]

\* ------------------------------------------------------------------------
\* Inputs
\* ------------------------------------------------------------------------

FeedbackSlots == { Undefined, "affirm", "disaffirm" }
ActionSlots == { Undefined, "like" }
TargetSlots == { Undefined, "cough", "headache" }

\* the request that opens a session
LaunchRequest ==
    [ intent |-> "LaunchRequest",
      feedback |-> Undefined, action |-> Undefined, target |-> Undefined ]

\* the structured inputs a turn may deliver
\* (general intents with feedback and at most one of action and target)
Inputs ==
    { in \in [ intent : { "GeneralControlIntent" },
               feedback : FeedbackSlots, action : ActionSlots, target : TargetSlots ] :
        in.action = Undefined \/ in.target = Undefined }
    \cup { LaunchRequest }

\* ------------------------------------------------------------------------
\* State
\* ------------------------------------------------------------------------

VARIABLES
    props,              \* this.props, the merged props
    value,              \* this.state.value: questionId -> answer
    focusQuestionId,    \* this.state.focusQuestionId
    activeInitiative,   \* this.state.activeInitiative.actName
    handleFunc,         \* this.handleFunc: name of the bound input handler
    initiativeFunc,     \* this.initiativeFunc: name of the bound initiative handler
    input,              \* the input of the current turn
    result,             \* the acts the last call added to its result builder
    lastOp,             \* the last call on the control and how it ended
    canHandleInTurn     \* what canHandle() returned in the current turn

vars == << props, value, focusQuestionId, activeInitiative, handleFunc,
           initiativeFunc, input, result, lastOp, canHandleInTurn >>

\* the empty answers object {}
EmptyAnswers == [ q \in {} |-> UndefinedValue ]

\* the record kept in lastOp
Op(op, ret, applied, handlerActs, tookInitiative) ==
    [ op |-> op, ret |-> ret, applied |-> applied,
      handlerActs |-> handlerActs, tookInitiative |-> tookInitiative,
      logged |-> << >>, args |-> << >> ]

\* the constructor: merged props, state.value = {}, nothing bound
Init ==
    /\ props \in { mergeWithDefaultProps(raw) :
                     raw \in { r \in RawProps : r.completion = Undefined } }
    /\ value = EmptyAnswers
    /\ focusQuestionId = Undefined
    /\ activeInitiative = Undefined
    /\ handleFunc = Undefined
    /\ initiativeFunc = Undefined
    /\ input = LaunchRequest
    /\ result = << >>
    /\ lastOp = Op("constructor", "void", Undefined, 0, FALSE)
    /\ canHandleInTurn = "none"

\* ------------------------------------------------------------------------
\* Helpers of the control
\* ------------------------------------------------------------------------

\* getQuestionnaireContent: the questionnaireData prop, evaluated
getQuestionnaireContent(p) == p.questionnaireData

\* questions.find((x) => x.id === questionId) finds a question
QuestionFound(content, questionId) ==
    \E i \in DOMAIN content.questions : content.questions[i].id = questionId

\* getQuestionContentById: the first question with that id (asserted to exist)
getQuestionContentById(content, questionId) ==
    LET i == CHOOSE j \in DOMAIN content.questions :
                 /\ content.questions[j].id = questionId
                 /\ \A k \in DOMAIN content.questions :
                        content.questions[k].id = questionId => j <= k
    IN  content.questions[i]

\* InputUtil.feedbackIsMatchOrUndefined / actionIsMatchOrUndefined /
\* targetIsMatchOrUndefined: an absent slot matches, a present one must be listed
IsMatchOrUndefined(slot, allowed) == slot = Undefined \/ slot \in allowed

\* resultBuilder.hasInitiativeAct()
hasInitiativeAct(acts) == \E i \in DOMAIN acts : acts[i].initiative

\* new AskQuestionAct(this, {answers, questionId, ...})
AskQuestionAct(answers, questionId) ==
    [ name |-> "AskQuestionAct", initiative |-> TRUE,
      questionId |-> questionId, answers |-> answers ]

\* an initiative act a custom handler adds
CustomInitiativeAct(answers) ==
    [ name |-> "CustomInitiativeAct", initiative |-> TRUE,
      questionId |-> Undefined, answers |-> answers ]

\* a content (reactive) act a custom handler adds
CustomContentAct(answers) ==
    [ name |-> "CustomContentAct", initiative |-> FALSE,
      questionId |-> Undefined, answers |-> answers ]

\* the part of the control a handler reads and writes, with the acts added so
\* far and whether the call has thrown
Ctl(v, f, a, i, acts, threw) ==
    [ value |-> v, focusQuestionId |-> f, activeInitiative |-> a,
      initiativeFunc |-> i, acts |-> acts, threw |-> threw ]

\* the same, after a throw
Thrown(c) == [ c EXCEPT !.threw = TRUE ]

\* ------------------------------------------------------------------------
\* Input handlers
\* ------------------------------------------------------------------------

\* (variant) the guard without the check of the feedback slot
isPositiveAnswerWithoutValueAnyFeedback(p, focus, in) ==
    LET content == getQuestionnaireContent(p) IN
    IF focus = Undefined THEN "false"
    ELSE IF ~QuestionFound(content, focus) THEN "threw"
    ELSE LET question == getQuestionContentById(content, focus) IN
         IF in.intent # "GeneralControlIntent" THEN "false"
         ELSE IF in.feedback = Undefined /\ in.action = Undefined
                 /\ in.target = Undefined THEN "false"
         ELSE IF ~IsMatchOrUndefined(in.action, question.actions) THEN "false"
         ELSE IF ~IsMatchOrUndefined(in.target, question.targets) THEN "false"
         ELSE "true"

\* falseIfGuardFailed(e): the failure of an okIf guard becomes the result
\* false, any other error is raised again
falseIfGuardFailed(e) == IF e = "GuardFailed" THEN "false" ELSE "threw"

\* (variant) the try block without the guard on the focus
positiveAnswerGuardsWithoutFocusCheck(p, focus, in) ==
    LET content == getQuestionnaireContent(p) IN
    IF ~QuestionFound(content, focus) THEN "Error"
    ELSE LET question == getQuestionContentById(content, focus) IN
         IF in.intent # "GeneralControlIntent" THEN "GuardFailed"
         ELSE IF in.feedback = Undefined /\ in.action = Undefined
                 /\ in.target = Undefined THEN "GuardFailed"
         ELSE IF ~IsMatchOrUndefined(in.feedback, {"affirm"}) THEN "GuardFailed"
         ELSE IF ~IsMatchOrUndefined(in.action, question.actions) THEN "GuardFailed"
         ELSE IF ~IsMatchOrUndefined(in.target, question.targets) THEN "GuardFailed"
         ELSE "ok"

\* (variant) the try block without the guard on the target
positiveAnswerGuardsIgnoringTarget(p, focus, in) ==
    LET content == getQuestionnaireContent(p) IN
    IF focus = Undefined THEN "GuardFailed"
    ELSE IF ~QuestionFound(content, focus) THEN "Error"
    ELSE LET question == getQuestionContentById(content, focus) IN
         IF in.intent # "GeneralControlIntent" THEN "GuardFailed"
         ELSE IF in.feedback = Undefined /\ in.action = Undefined
                 /\ in.target = Undefined THEN "GuardFailed"
         ELSE IF ~IsMatchOrUndefined(in.feedback, {"affirm"}) THEN "GuardFailed"
         ELSE IF ~IsMatchOrUndefined(in.action, question.actions) THEN "GuardFailed"
         ELSE "ok"

\* the try block of isPositiveAnswerWithoutValue: "ok" when it runs to its
\* end, else what was thrown ("GuardFailed" by okIf, "Error" by the assertion
\* of getQuestionContentById)
positiveAnswerGuards(p, focus, in) ==
    LET content == getQuestionnaireContent(p) IN
    IF focus = Undefined THEN "GuardFailed"
    ELSE IF ~QuestionFound(content, focus) THEN "Error"
    ELSE LET question == getQuestionContentById(content, focus) IN
         IF in.intent # "GeneralControlIntent" THEN "GuardFailed"
         ELSE IF in.feedback = Undefined /\ in.action = Undefined
                 /\ in.target = Undefined THEN "GuardFailed"
         ELSE IF ~IsMatchOrUndefined(in.feedback, {"affirm"}) THEN "GuardFailed"
         ELSE IF ~IsMatchOrUndefined(in.action, question.actions) THEN "GuardFailed"
         ELSE IF ~IsMatchOrUndefined(in.target, question.targets) THEN "GuardFailed"
         ELSE "ok"

\* the guard of std::DirectAnswer: "true", "false" (a guard failed) or "threw"
isPositiveAnswerWithoutValue(p, focus, in) ==
    LET outcome == positiveAnswerGuards(p, focus, in) IN
    IF outcome = "ok" THEN "true" ELSE falseIfGuardFailed(outcome)

\* (variant) answering an answered question withdraws its answer
updateAnswerRetracting(v, questionId, answer) ==
    IF questionId \in DOMAIN v
    THEN [ q \in DOMAIN v \ {questionId} |-> v[q] ]
    ELSE [ q \in DOMAIN v \cup {questionId} |->
             IF q = questionId
             THEN [ answerId |-> answer, atRiskOfMisunderstanding |-> FALSE ]
             ELSE v[q] ]

\* (variant) the first answer of a question is kept
updateAnswerKeepingFirst(v, questionId, answer) ==
    [ q \in DOMAIN v \cup {questionId} |->
        IF q \in DOMAIN v THEN v[q]
        ELSE [ answerId |-> answer, atRiskOfMisunderstanding |-> FALSE ] ]

\* (variant) answering a question again with the same choice withdraws the answer
updateAnswerToggling(v, questionId, answer) ==
    IF questionId \in DOMAIN v /\ v[questionId].answerId = answer
    THEN [ q \in DOMAIN v \ {questionId} |-> v[q] ]
    ELSE [ q \in DOMAIN v \cup {questionId} |->
             IF q = questionId
             THEN [ answerId |-> answer, atRiskOfMisunderstanding |-> FALSE ]
             ELSE v[q] ]

\* (variant) the store is replaced by one that holds the new answer only
updateAnswerReplacingStore(v, questionId, answer) ==
    [ q \in {questionId} |->
        [ answerId |-> answer, atRiskOfMisunderstanding |-> FALSE ] ]

\* this.state.value[questionId] = {answerId: answer, atRiskOfMisunderstanding: false}
updateAnswer(v, questionId, answer) ==
    [ q \in DOMAIN v \cup {questionId} |->
        IF q = questionId
        THEN [ answerId |-> answer, atRiskOfMisunderstanding |-> FALSE ]
        ELSE v[q] ]

\* (variant) the yes-choice taken from the choices list whatever is configured
positiveAnswerFromChoices(content) ==
    IF Len(content.choices) > 0
    THEN Str(content.choices[1].id)
    ELSE UndefinedValue

\* content.choiceForYesUtterance ?? content.choices[0]
positiveAnswer(content) ==
    IF content.choiceForYesUtterance # Undefined
    THEN Str(content.choiceForYesUtterance)
    ELSE IF Len(content.choices) > 0
         THEN ChoiceObject(content.choices[1].id)
         ELSE UndefinedValue

\* (variant) the answer is recorded under the focus without looking it up
handlePositiveAnswerWithoutValueUnchecked(p, c) ==
    [ c EXCEPT !.value = updateAnswer(c.value, c.focusQuestionId,
                                      positiveAnswer(getQuestionnaireContent(p))) ]

\* (variant) the answer is recorded for the last question of the content
handlePositiveAnswerWithoutValueForLastQuestion(p, c) ==
    LET content == getQuestionnaireContent(p) IN
    IF ~QuestionFound(content, c.focusQuestionId) THEN Thrown(c)
    ELSE [ c EXCEPT !.value =
             updateAnswer(c.value, content.questions[Len(content.questions)].id,
                          positiveAnswer(content)) ]

\* the effect of std::DirectAnswer
handlePositiveAnswerWithoutValue(p, c) ==
    LET content == getQuestionnaireContent(p) IN
    IF ~QuestionFound(content, c.focusQuestionId) THEN Thrown(c)
    ELSE LET question == getQuestionContentById(content, c.focusQuestionId) IN
         [ c EXCEPT !.value = updateAnswer(c.value, question.id, positiveAnswer(content)) ]

\* this.standardInputHandlers
standardInputHandlers ==
    << [ name |-> "std::DirectAnswer", feedback |-> "std", effect |-> "std" ] >>

\* the guard of a caller-supplied handler
CustomCanHandle(h, in) ==
    IF in.intent = "GeneralControlIntent"
       /\ (h.feedback = "any" \/ in.feedback = h.feedback)
    THEN "true" ELSE "false"

\* the effect of a caller-supplied handler
CustomHandle(h, p, c) ==
    LET content == getQuestionnaireContent(p) IN
    CASE h.effect = "initiativeAct" ->
           [ c EXCEPT !.acts = Append(@, CustomInitiativeAct(c.value)) ]
      [] h.effect = "contentAct" ->
           [ c EXCEPT !.acts = Append(@, CustomContentAct(c.value)) ]
      [] h.effect = "recordAtRisk" ->
           IF c.focusQuestionId = Undefined THEN c
           ELSE [ c EXCEPT !.value =
                    [ q \in DOMAIN c.value \cup {c.focusQuestionId} |->
                        IF q = c.focusQuestionId
                        THEN [ answerId |-> Str(content.choices[Len(content.choices)].id),
                               atRiskOfMisunderstanding |-> TRUE ]
                        ELSE c.value[q] ] ]

\* stdHandlers.concat(customHandlers)
AllInputHandlers(p) == standardInputHandlers \o p.inputHandling.customHandlingFuncs

\* handler.canHandle.call(this, input)
HandlerCanHandle(h, p, focus, in) ==
    IF h.effect = "std" THEN isPositiveAnswerWithoutValue(p, focus, in)
    ELSE CustomCanHandle(h, in)

\* handler.handle, bound to this
HandlerHandle(h, p, c) ==
    IF h.effect = "std" THEN handlePositiveAnswerWithoutValue(p, c)
    ELSE CustomHandle(h, p, c)

\* (variant) only the standard handlers are asked
InputMatchesStandardOnly(p, focus, in) ==
    SelectSeq(standardInputHandlers, LAMBDA h : HandlerCanHandle(h, p, focus, in) = "true")

\* the handlers pushed to matches, in list order
InputMatches(p, focus, in) ==
    SelectSeq(AllInputHandlers(p), LAMBDA h : HandlerCanHandle(h, p, focus, in) = "true")

\* a guard threw while the list was walked
InputGuardThrew(p, focus, in) ==
    \E i \in DOMAIN AllInputHandlers(p) :
        HandlerCanHandle(AllInputHandlers(p)[i], p, focus, in) = "threw"

\* (variant) the error names only the handler that is bound
AmbiguityDiagnosticFirstOnly(names) ==
    IF Len(names) > 1 THEN << names[1] >> ELSE << >>

\* the error logged when more than one handler matched: the names of all the
\* matches, in order; nothing is logged otherwise
AmbiguityDiagnostic(names) ==
    IF Len(names) > 1 THEN names ELSE << >>

\* matches.map((x) => x.name)
HandlerNames(matches) == [ i \in DOMAIN matches |-> matches[i].name ]

\* (variant) the last match is bound
LastMatch(matches) == matches[Len(matches)]

\* matches[0], the handler canHandle binds
FirstMatch(matches) == matches[1]

\* the handler with that name
HandlerNamed(p, name) ==
    CHOOSE h \in Range(AllInputHandlers(p)) : h.name = name

\* ------------------------------------------------------------------------
\* Initiative handlers
\* ------------------------------------------------------------------------

\* this.state.value === {} : identity with an object created by the comparison
StrictEqualsNewObject(v) == FALSE

\* (variant) the control stops asking once an answer is recorded
wantsToAskLineItemQuestionUntilAnswered(p, v) == v = EmptyAnswers

\* the guard of std::askLineItem
wantsToAskLineItemQuestion(p, v) ==
    IF StrictEqualsNewObject(v) /\ p.required = FALSE THEN FALSE ELSE TRUE

\* (variant) the last question is put in focus
LineItemToAskLast(content, v) == content.questions[Len(content.questions)].id

\* the question askLineItemQuestion puts in focus
LineItemToAsk(content, v) == content.questions[1].id

\* (variant) asking a question withdraws the answer it had
askLineItemQuestionForgetting(p, c) ==
    LET content == getQuestionnaireContent(p) IN
    IF Len(content.questions) = 0 THEN Thrown(c)
    ELSE LET q == LineItemToAsk(content, c.value)
             kept == [ k \in DOMAIN c.value \ {q} |-> c.value[k] ]
         IN  [ c EXCEPT !.value = kept,
                        !.focusQuestionId = q,
                        !.activeInitiative = "AskQuestionAct",
                        !.acts = Append(@, AskQuestionAct(kept, q)) ]

\* (variant) with no question to ask the act is recorded as active all the same
askLineItemQuestionOnEmptyList(p, c) ==
    LET content == getQuestionnaireContent(p) IN
    IF Len(content.questions) = 0
    THEN [ c EXCEPT !.activeInitiative = "AskQuestionAct" ]
    ELSE LET q == LineItemToAsk(content, c.value) IN
         [ c EXCEPT !.focusQuestionId = q,
                    !.activeInitiative = "AskQuestionAct",
                    !.acts = Append(@, AskQuestionAct(c.value, q)) ]

\* (variant) the act is built from an empty answer map
askLineItemQuestionWithoutAnswers(p, c) ==
    LET content == getQuestionnaireContent(p) IN
    IF Len(content.questions) = 0 THEN Thrown(c)
    ELSE LET q == LineItemToAsk(content, c.value) IN
         [ c EXCEPT !.focusQuestionId = q,
                    !.activeInitiative = "AskQuestionAct",
                    !.acts = Append(@, AskQuestionAct(EmptyAnswers, q)) ]

\* (variant) the act is added and the focus stays where it was
askLineItemQuestionKeepingFocus(p, c) ==
    LET content == getQuestionnaireContent(p) IN
    IF Len(content.questions) = 0 THEN Thrown(c)
    ELSE LET q == LineItemToAsk(content, c.value) IN
         [ c EXCEPT !.activeInitiative = "AskQuestionAct",
                    !.acts = Append(@, AskQuestionAct(c.value, q)) ]

\* (variant) the act is added without recording it as the active initiative
askLineItemQuestionNotRecorded(p, c) ==
    LET content == getQuestionnaireContent(p) IN
    IF Len(content.questions) = 0 THEN Thrown(c)
    ELSE LET q == LineItemToAsk(content, c.value) IN
         [ c EXCEPT !.focusQuestionId = q,
                    !.acts = Append(@, AskQuestionAct(c.value, q)) ]

\* the effect of std::askLineItem
askLineItemQuestion(p, c) ==
    LET content == getQuestionnaireContent(p) IN
    IF Len(content.questions) = 0 THEN Thrown(c)
    ELSE LET q == LineItemToAsk(content, c.value) IN
         [ c EXCEPT !.focusQuestionId = q,
                    !.activeInitiative = "AskQuestionAct",
                    !.acts = Append(@, AskQuestionAct(c.value, q)) ]

\* this.standardInitiativeHandlers
standardInitiativeHandlers == << "std::askLineItem" >>

\* the initiative handlers pushed to matches
InitiativeMatches(p, v) ==
    SelectSeq(standardInitiativeHandlers, LAMBDA h : wantsToAskLineItemQuestion(p, v))

\* (variant) the guard phase already records the initiative as active
canTakeInitiativeStepMarkingActive(p, c) ==
    IF Len(InitiativeMatches(p, c.value)) >= 1
    THEN [ c EXCEPT !.initiativeFunc = InitiativeMatches(p, c.value)[1],
                    !.activeInitiative = "AskQuestionAct" ]
    ELSE c

\* canTakeInitiative, as a step inside a call: binds initiativeFunc on a match
canTakeInitiativeStep(p, c) ==
    IF Len(InitiativeMatches(p, c.value)) >= 1
    THEN [ c EXCEPT !.initiativeFunc = InitiativeMatches(p, c.value)[1] ]
    ELSE c

\* (variant) with no handler bound the standard one is applied
takeInitiativeStepWithFallback(p, c) == askLineItemQuestion(p, c)

\* takeInitiative, as a step inside a call
takeInitiativeStep(p, c) ==
    IF c.initiativeFunc = Undefined THEN Thrown(c)
    ELSE askLineItemQuestion(p, c)

\* ------------------------------------------------------------------------
\* Operations
\* ------------------------------------------------------------------------

\* the control as a call finds it, with an empty result builder
Current == Ctl(value, focusQuestionId, activeInitiative, initiativeFunc, << >>, FALSE)

\* the state a call leaves
Leaves(c) ==
    /\ value' = c.value
    /\ focusQuestionId' = c.focusQuestionId
    /\ activeInitiative' = c.activeInitiative
    /\ initiativeFunc' = c.initiativeFunc
    /\ result' = c.acts

\* the runtime delivers the input of the next turn
BeginTurn(in) ==
    /\ input' = in
    /\ canHandleInTurn' = "none"
    /\ result' = << >>
    /\ lastOp' = Op("beginTurn", "void", Undefined, 0, FALSE)
    /\ UNCHANGED << props, value, focusQuestionId, activeInitiative,
                    handleFunc, initiativeFunc >>

\* canHandle(input)
CanHandle ==
    LET matches == InputMatches(props, focusQuestionId, input)
        ret == IF InputGuardThrew(props, focusQuestionId, input) THEN "threw"
               ELSE IF Len(matches) >= 1 THEN "true" ELSE "false"
    IN  /\ handleFunc' = IF ret = "true" THEN FirstMatch(matches).name ELSE handleFunc
        /\ canHandleInTurn' = ret
        /\ lastOp' = [ Op("canHandle", ret, Undefined, 0, FALSE) EXCEPT
                         !.logged = IF ret = "threw" THEN << >>
                                    ELSE AmbiguityDiagnostic(HandlerNames(matches)) ]
        /\ result' = << >>
        /\ UNCHANGED << props, value, focusQuestionId, activeInitiative,
                        initiativeFunc, input >>

\* the handler effect of handle(): this.handleFunc(input, resultBuilder)
HandleEffect(p, hf, c) == HandlerHandle(HandlerNamed(p, hf), p, c)

\* (variant) the initiative step does not look at the result builder
RunsInitiativeStepUnconditionally(p, c) == Len(InitiativeMatches(p, c.value)) >= 1

\* (variant) handle() never goes on to the initiative step
RunsInitiativeStepNever(p, c) == FALSE

\* handle() goes on to the initiative step
RunsInitiativeStep(p, c) ==
    ~hasInitiativeAct(c.acts) /\ Len(InitiativeMatches(p, c.value)) >= 1

\* the initiative step of handle(): canTakeInitiative, then takeInitiative
InitiativeStep(p, c) == takeInitiativeStep(p, canTakeInitiativeStep(p, c))

\* handle(input, resultBuilder)
Handle ==
    IF handleFunc = Undefined
    THEN /\ lastOp' = Op("handle", "threw", Undefined, 0, FALSE)
         /\ result' = << >>
         /\ UNCHANGED << props, value, focusQuestionId, activeInitiative,
                         handleFunc, initiativeFunc, input, canHandleInTurn >>
    ELSE LET c1 == HandleEffect(props, handleFunc, Current)
             steps == ~c1.threw /\ RunsInitiativeStep(props, c1)
             c2 == IF steps THEN InitiativeStep(props, c1) ELSE c1
         IN  /\ Leaves(c2)
             /\ lastOp' = Op("handle", IF c2.threw THEN "threw" ELSE "void",
                             handleFunc, Len(c1.acts), steps)
             /\ UNCHANGED << props, handleFunc, input, canHandleInTurn >>

\* canTakeInitiative(input)
CanTakeInitiative ==
    LET c == canTakeInitiativeStep(props, Current)
        ret == IF Len(InitiativeMatches(props, value)) >= 1 THEN "true" ELSE "false"
    IN  /\ Leaves(c)
        /\ lastOp' = [ Op("canTakeInitiative", ret, Undefined, 0, FALSE) EXCEPT
                         !.logged = AmbiguityDiagnostic(InitiativeMatches(props, value)) ]
        /\ UNCHANGED << props, handleFunc, input, canHandleInTurn >>

\* takeInitiative(input, resultBuilder)
TakeInitiative ==
    LET c == takeInitiativeStep(props, Current)
    IN  /\ Leaves(c)
        /\ lastOp' = Op("takeInitiative", IF c.threw THEN "threw" ELSE "void",
                        initiativeFunc, 0, ~c.threw)
        /\ UNCHANGED << props, handleFunc, input, canHandleInTurn >>

\* (variant) the bound handlers are dropped with the state
ClearResettingHandlers ==
    /\ value' = EmptyAnswers
    /\ focusQuestionId' = Undefined
    /\ activeInitiative' = Undefined
    /\ handleFunc' = Undefined
    /\ initiativeFunc' = Undefined
    /\ result' = << >>
    /\ lastOp' = Op("clear", "void", Undefined, 0, FALSE)
    /\ UNCHANGED << props, input, canHandleInTurn >>

\* (variant) the active initiative outlives the reset
ClearKeepingInitiative ==
    /\ value' = EmptyAnswers
    /\ focusQuestionId' = Undefined
    /\ result' = << >>
    /\ lastOp' = Op("clear", "void", Undefined, 0, FALSE)
    /\ UNCHANGED << props, activeInitiative, handleFunc, initiativeFunc, input,
                    canHandleInTurn >>

\* (variant) only the answers are reset
ClearAnswersOnly ==
    /\ value' = EmptyAnswers
    /\ result' = << >>
    /\ lastOp' = Op("clear", "void", Undefined, 0, FALSE)
    /\ UNCHANGED << props, focusQuestionId, activeInitiative, handleFunc,
                    initiativeFunc, input, canHandleInTurn >>

\* clear(): a new state object with value = {}
Clear ==
    /\ value' = EmptyAnswers
    /\ focusQuestionId' = Undefined
    /\ activeInitiative' = Undefined
    /\ result' = << >>
    /\ lastOp' = Op("clear", "void", Undefined, 0, FALSE)
    /\ UNCHANGED << props, handleFunc, initiativeFunc, input, canHandleInTurn >>

Next ==
    \/ \E in \in Inputs : BeginTurn(in)
    \/ CanHandle
    \/ Handle
    \/ CanTakeInitiative
    \/ TakeInitiative
    \/ Clear

Spec == Init /\ [][Next]_vars

\* a control with the built-in handlers only
InitStd == Init /\ props.inputHandling.customHandlingFuncs = << >>

SpecStd == InitStd /\ [][Next]_vars

\* props.completion, evaluated on a state: the default function returns the
\* failure { reasonCode: 'todo' } whatever the answers are
completion(p, v) ==
    IF p.completion = "default" THEN "reasonCode:todo" ELSE "true"

\* question ids and answer ids the host application may pass to updateAnswer
HostQuestionIds == { "cough", "headache" }
HostAnswerIds == { Str(DemoChoices[i].id) : i \in DOMAIN DemoChoices }

\* updateAnswer(questionId, answer, input, resultBuilder), called by the host
UpdateAnswer(questionId, answer) ==
    /\ value' = updateAnswer(value, questionId, answer)
    /\ lastOp' = [ Op("updateAnswer", "void", Undefined, 0, FALSE) EXCEPT
                     !.args = << questionId, answer >> ]
    /\ UNCHANGED << props, focusQuestionId, activeInitiative, handleFunc,
                    initiativeFunc, input, result, canHandleInTurn >>

\* question lists a questionnaireData function may return
DynamicQuestionLists ==
    QuestionLists \cup { << DemoQuestions[2], DemoQuestions[1] >> }

\* the next turn begins and the questionnaireData function returns other
\* questions for its input than it did before
BeginTurnWithNewContent(in, questions) ==
    /\ props.questionnaireData.isFunction
    /\ questions # props.questionnaireData.questions
    /\ props' = [ props EXCEPT !.questionnaireData.questions = questions ]
    /\ input' = in
    /\ canHandleInTurn' = "none"
    /\ result' = << >>
    /\ lastOp' = Op("beginTurn", "void", Undefined, 0, FALSE)
    /\ UNCHANGED << value, focusQuestionId, activeInitiative,
                    handleFunc, initiativeFunc >>

NextHost ==
    \/ Next
    \/ \E q \in HostQuestionIds, a \in HostAnswerIds : UpdateAnswer(q, a)
    \/ \E in \in Inputs, qs \in DynamicQuestionLists : BeginTurnWithNewContent(in, qs)

\* a control with the built-in handlers only whose questionnaireData is a
\* function that names the choice for a yes, with any completion prop
InitHost ==
    /\ props \in { mergeWithDefaultProps(raw) :
                     raw \in { r \in RawProps :
                                 /\ r.customHandlingFuncs = << >>
                                 /\ r.questionnaireData.isFunction
                                 /\ r.questionnaireData.choiceForYesUtterance = "often"
                                 /\ r.required = Undefined
                                 /\ r.answerConfirmationRequired = Undefined } }
    /\ value = EmptyAnswers
    /\ focusQuestionId = Undefined
    /\ activeInitiative = Undefined
    /\ handleFunc = Undefined
    /\ initiativeFunc = Undefined
    /\ input = LaunchRequest
    /\ result = << >>
    /\ lastOp = Op("constructor", "void", Undefined, 0, FALSE)
    /\ canHandleInTurn = "none"

\* the control driven by a host that also calls updateAnswer and whose
\* questionnaireData function may change its result between turns
SpecHost == InitHost /\ [][NextHost]_vars

\* the inputs of a user who answers yes in every turn
AffirmativeInputs ==
    { in \in Inputs : in.intent = "GeneralControlIntent" /\ in.feedback = "affirm" }

\* a turn as the runtime drives it: canHandle() first
TurnCanHandle ==
    /\ lastOp.op \in { "constructor", "beginTurn" }
    /\ CanHandle

\* handle() after a canHandle() that returned true
TurnHandle ==
    /\ lastOp.op = "canHandle"
    /\ lastOp.ret = "true"
    /\ Handle

\* the initiative phase of a turn the control did not handle
TurnCanTakeInitiative ==
    /\ lastOp.op = "canHandle"
    /\ lastOp.ret = "false"
    /\ CanTakeInitiative

\* takeInitiative() after a canTakeInitiative() that returned true
TurnTakeInitiative ==
    /\ lastOp.op = "canTakeInitiative"
    /\ lastOp.ret = "true"
    /\ TakeInitiative

\* the user answers yes to the response of the turn
TurnAnswerYes ==
    /\ lastOp.op \in { "handle", "takeInitiative" }
    /\ \E in \in AffirmativeInputs : BeginTurn(in)

NextDialog ==
    \/ TurnCanHandle
    \/ TurnHandle
    \/ TurnCanTakeInitiative
    \/ TurnTakeInitiative
    \/ TurnAnswerYes

\* a control with the built-in handlers only and at least two questions
InitDialog ==
    /\ InitStd
    /\ Len(props.questionnaireData.questions) >= 2

\* a launch followed by turns in which the user says yes; the runtime goes on
\* with the next call of a turn and the user goes on answering
SpecDialog == InitDialog /\ [][NextDialog]_vars /\ WF_vars(NextDialog)

\* the user says something, after the response of a turn or after a reset
TurnBegin ==
    /\ lastOp.op \in { "handle", "takeInitiative", "clear" }
    /\ \E in \in Inputs : BeginTurn(in)

\* the host resets the control between two turns
TurnClear ==
    /\ lastOp.op \in { "handle", "takeInitiative" }
    /\ Clear

NextTurns ==
    \/ TurnCanHandle
    \/ TurnHandle
    \/ TurnCanTakeInitiative
    \/ TurnTakeInitiative
    \/ TurnBegin
    \/ TurnClear

\* a control with the built-in handlers only, called in the order of the
\* runtime: canHandle() and handle() or, if the turn is not handled,
\* canTakeInitiative() and takeInitiative()
SpecTurns == InitStd /\ [][NextTurns]_vars

\* every variable keeps to its type
TypeOK ==
    /\ DOMAIN value \subseteq { "cough", "headache" }
    /\ focusQuestionId \in { Undefined, "cough", "headache" }
    /\ activeInitiative \in { Undefined, "AskQuestionAct" }
    /\ initiativeFunc \in { Undefined, "std::askLineItem" }
    /\ input \in Inputs
    /\ canHandleInTurn \in { "none", "true", "false", "threw" }

\* ------------------------------------------------------------------------
\* Properties
\* ------------------------------------------------------------------------

\* the initiative acts among some acts
InitiativeActs(acts) == { i \in DOMAIN acts : acts[i].initiative }

\* C1: a single handle() call adds at most one initiative act to its result,
\* and the initiative step of handle() runs only when the acts the selected
\* turn handler added hold no initiative act.
C1_AtMostOneInitiativeAct ==
    lastOp.op = "handle" =>
        /\ Cardinality(InitiativeActs(result)) <= 1
        /\ lastOp.tookInitiative =>
             InitiativeActs(SubSeq(result, 1, lastOp.handlerActs)) = {}

\* C1 witness: the applied handler added an initiative act itself and the
\* initiative step was skipped, although an initiative guard was true
C1_Witness ==
    /\ lastOp.op = "handle"
    /\ lastOp.ret = "void"
    /\ lastOp.handlerActs = 1
    /\ Cardinality(InitiativeActs(result)) = 1
    /\ ~lastOp.tookInitiative
    /\ Len(InitiativeMatches(props, value)) >= 1

\* the index of the earliest handler of the combined list whose guard is true
EarliestTrueGuard(p, focus, in) ==
    CHOOSE i \in DOMAIN AllInputHandlers(p) :
        /\ HandlerCanHandle(AllInputHandlers(p)[i], p, focus, in) = "true"
        /\ \A j \in 1 .. (i - 1) :
               HandlerCanHandle(AllInputHandlers(p)[j], p, focus, in) # "true"

\* C2: when canHandle() returns true it binds the earliest handler, in the order
\* standard handlers then custom handlers, whose guard is true (the standard
\* handler whenever its guard is true), and a handle() that follows applies
\* that handler.
C2_BindsFirstMatch ==
    [][ /\ (lastOp'.op = "canHandle" /\ lastOp'.ret = "true") =>
            /\ handleFunc' =
                 AllInputHandlers(props)[EarliestTrueGuard(props, focusQuestionId, input)].name
            /\ isPositiveAnswerWithoutValue(props, focusQuestionId, input) = "true" =>
                 handleFunc' = "std::DirectAnswer"
        /\ (lastOp.op = "canHandle" /\ lastOp.ret = "true" /\ lastOp'.op = "handle") =>
            lastOp'.applied =
              AllInputHandlers(props)[EarliestTrueGuard(props, focusQuestionId, input)].name
      ]_vars

\* C2 witness: handle() applied the standard handler in a turn where the
\* guards of two custom handlers were true as well
C2_Witness ==
    /\ lastOp.op = "handle"
    /\ lastOp.applied = "std::DirectAnswer"
    /\ canHandleInTurn = "true"
    /\ Cardinality({ i \in DOMAIN props.inputHandling.customHandlingFuncs :
                       CustomCanHandle(props.inputHandling.customHandlingFuncs[i], input)
                         = "true" }) = 2

\* the first question in model order without an answer, or the first question
\* when every question has one
FirstUnansweredOrFirst(content, answers) ==
    LET unanswered == { i \in DOMAIN content.questions :
                          content.questions[i].id \notin DOMAIN answers }
    IN  IF unanswered = {} THEN content.questions[1].id
        ELSE content.questions[CHOOSE i \in unanswered :
                                 \A j \in unanswered : i <= j].id

\* C3: whenever the ask-question initiative handler has run, the question in the
\* emitted act and in focusQuestionId is the first question in model order
\* without an AnswerStore entry (the first question if all are answered).
C3_AsksFirstUnanswered ==
    (lastOp.op \in {"handle", "takeInitiative"} /\ lastOp.tookInitiative
       /\ lastOp.ret = "void") =>
        LET content == getQuestionnaireContent(props) IN
        /\ focusQuestionId = FirstUnansweredOrFirst(content, value)
        /\ result[Len(result)].questionId = FirstUnansweredOrFirst(content, value)

\* nothing answered, nothing in focus, no initiative outstanding
Idle ==
    /\ value = EmptyAnswers
    /\ focusQuestionId = Undefined
    /\ activeInitiative = Undefined

\* C4: from the Idle state of a control with questions and 'required' true,
\* canTakeInitiative() returns true, and the takeInitiative() that follows emits
\* exactly one ask-question act for the first question of the model and leaves
\* that question in focus.
C4_LaunchAsksFirstQuestion ==
    [][ LET content == getQuestionnaireContent(props)
            launch == Idle /\ Len(content.questions) > 0 /\ props.required
        IN  /\ (launch /\ lastOp'.op = "canTakeInitiative") => lastOp'.ret = "true"
            /\ (launch /\ lastOp.op = "canTakeInitiative" /\ lastOp.ret = "true"
                  /\ lastOp'.op = "takeInitiative") =>
                 /\ lastOp'.ret = "void"
                 /\ result' = << AskQuestionAct(EmptyAnswers, content.questions[1].id) >>
                 /\ focusQuestionId' = content.questions[1].id
      ]_vars

\* C4 witness: the launch turn has asked the first question
C4_Witness ==
    /\ lastOp.op = "takeInitiative"
    /\ lastOp.ret = "void"
    /\ props.required
    /\ value = EmptyAnswers
    /\ Len(result) = 1
    /\ focusQuestionId = getQuestionnaireContent(props).questions[1].id

\* the ids of the choices of the content
ChoiceIds(content) == { content.choices[i].id : i \in DOMAIN content.choices }

\* handle() is applying std::DirectAnswer to the affirmative input that
\* canHandle() accepted in this turn, with a question in focus
AffirmativeTurnHandled ==
    /\ lastOp'.op = "handle"
    /\ lastOp'.applied = "std::DirectAnswer"
    /\ canHandleInTurn = "true"
    /\ input.intent = "GeneralControlIntent"
    /\ input.feedback = "affirm"
    /\ focusQuestionId # Undefined

\* C5: with choiceForYesUtterance configured as choice c and question q in
\* focus, handling an affirmative general-reference input leaves
\* AnswerStore[q] = {answerId: c, atRiskOfMisunderstanding: false}.
C5_ImpliedYesMapping ==
    [][ LET content == getQuestionnaireContent(props) IN
        (AffirmativeTurnHandled
           /\ content.choiceForYesUtterance \in ChoiceIds(content)) =>
            /\ focusQuestionId \in DOMAIN value'
            /\ value'[focusQuestionId] =
                 [ answerId |-> Str(content.choiceForYesUtterance),
                   atRiskOfMisunderstanding |-> FALSE ]
      ]_vars

\* C5 witness: 'rarely' is the configured yes-choice and an affirmative turn
\* has recorded it for cough
C5_Witness ==
    /\ lastOp.op = "handle"
    /\ lastOp.applied = "std::DirectAnswer"
    /\ canHandleInTurn = "true"
    /\ input.feedback = "affirm"
    /\ getQuestionnaireContent(props).choiceForYesUtterance = "rarely"
    /\ "cough" \in DOMAIN value
    /\ value["cough"] = [ answerId |-> Str("rarely"), atRiskOfMisunderstanding |-> FALSE ]

\* C6: when the content configures no choiceForYesUtterance (the merged props
\* then hold undefined or the merge default, never a choice id), an affirmative
\* input on the focused question records the id of the last element of choices.
C6_DefaultImpliedChoiceIsLast ==
    [][ LET content == getQuestionnaireContent(props) IN
        (AffirmativeTurnHandled
           /\ content.choiceForYesUtterance \notin ChoiceIds(content)) =>
            /\ focusQuestionId \in DOMAIN value'
            /\ value'[focusQuestionId].answerId =
                 Str(content.choices[Len(content.choices)].id)
      ]_vars

\* C7: with an empty AnswerStore and 'required' false, canTakeInitiative()
\* returns false.
C7_CompletionGating ==
    (lastOp.op = "canTakeInitiative" /\ value = EmptyAnswers /\ ~props.required) =>
        lastOp.ret = "false"

\* the step records an answer flagged atRiskOfMisunderstanding
RecordsAtRiskAnswer ==
    \E q \in DOMAIN value' :
        /\ value'[q].atRiskOfMisunderstanding
        /\ q \in DOMAIN value => value[q] # value'[q]

\* C8: when answerConfirmationRequired is true and the turn records an answer
\* at risk of misunderstanding, the single emitted act is a confirm-answer act,
\* activeInitiative names it, and the generic initiative step is not run.
C8_ConfirmationBranch ==
    [][ (lastOp'.op = "handle" /\ lastOp'.ret = "void"
           /\ props.answerConfirmationRequired /\ RecordsAtRiskAnswer) =>
            /\ Len(result') = 1
            /\ result'[1].name = "ConfirmQuestionnaireAnswer"
            /\ activeInitiative' = "ConfirmQuestionnaireAnswer"
            /\ ~lastOp'.tookInitiative
      ]_vars

\* C9: handle() without a canHandle() that returned true in the same turn
\* raises, leaves AnswerStore and FocusState unchanged and emits no act.
C9_HandleOutOfOrderRaises ==
    [][ (lastOp'.op = "handle" /\ canHandleInTurn # "true") =>
            /\ lastOp'.ret = "threw"
            /\ result' = << >>
            /\ UNCHANGED << value, focusQuestionId, activeInitiative >>
      ]_vars

\* some handler of the combined list has a true guard
SomeGuardTrue(p, focus, in) ==
    \E h \in Range(AllInputHandlers(p)) : HandlerCanHandle(h, p, focus, in) = "true"

\* C10: canHandle() returns true exactly when the guard of some handler,
\* standard or custom, is true and false exactly when none is, and it leaves
\* AnswerStore and FocusState as they were.
C10_DeclinesExactlyWhenNoGuard ==
    [][ lastOp'.op = "canHandle" =>
            /\ lastOp'.ret # "threw" =>
                 /\ lastOp'.ret = "true" <=> SomeGuardTrue(props, focusQuestionId, input)
                 /\ lastOp'.ret = "false" <=> ~SomeGuardTrue(props, focusQuestionId, input)
            /\ UNCHANGED << value, focusQuestionId, activeInitiative >>
      ]_vars

\* C10 witness: a turn was declined while a question was in focus and answered,
\* although the control has custom handlers
C10_Witness ==
    /\ lastOp.op = "canHandle"
    /\ lastOp.ret = "false"
    /\ focusQuestionId # Undefined
    /\ value # EmptyAnswers
    /\ Len(props.inputHandling.customHandlingFuncs) > 0

\* C11: canHandle() and canTakeInitiative() leave state.value, focusQuestionId
\* and activeInitiative unchanged whatever they return; these change only in a
\* handle(), takeInitiative() or clear() call.
C11_GuardResolutionIsPure ==
    [][ /\ lastOp'.op \in {"canHandle", "canTakeInitiative"} =>
             UNCHANGED << value, focusQuestionId, activeInitiative >>
        /\ << value, focusQuestionId, activeInitiative >>'
             # << value, focusQuestionId, activeInitiative >> =>
             lastOp'.op \in {"handle", "takeInitiative", "clear"}
      ]_vars

\* C11 witness: canTakeInitiative() returned true and bound its handler while a
\* question was answered and in focus
C11_Witness ==
    /\ lastOp.op = "canTakeInitiative"
    /\ lastOp.ret = "true"
    /\ initiativeFunc = "std::askLineItem"
    /\ value # EmptyAnswers
    /\ focusQuestionId = "cough"
    /\ activeInitiative = "AskQuestionAct"

\* std::DirectAnswer was bound by the canHandle() just made, or has been applied
\* by handle() in a turn whose canHandle() returned true
DirectAnswerClaimedInput ==
    \/ lastOp.op = "canHandle" /\ lastOp.ret = "true" /\ handleFunc = "std::DirectAnswer"
    \/ lastOp.op = "handle" /\ lastOp.applied = "std::DirectAnswer"
         /\ canHandleInTurn = "true"

C14_AffirmOnlyWhileAsking ==
    \A in \in Inputs :
        (in.feedback = "affirm"
           /\ isPositiveAnswerWithoutValue(props, focusQuestionId, in) = "true") =>
            activeInitiative = "AskQuestionAct"

\* C14 witness: a bare yes was claimed by the built-in handler while the
\* ask-question act was the active initiative
C14_Witness ==
    /\ lastOp.op = "canHandle"
    /\ lastOp.ret = "true"
    /\ handleFunc = "std::DirectAnswer"
    /\ input.feedback = "affirm"
    /\ input.action = Undefined
    /\ input.target = Undefined
    /\ activeInitiative = "AskQuestionAct"

\* C15: right after construction and right after every clear() the AnswerStore
\* is empty and focusQuestionId and activeInitiative are undefined.
C15_EmptyAfterConstructionAndClear ==
    lastOp.op \in {"constructor", "clear"} =>
        /\ value = EmptyAnswers
        /\ focusQuestionId = Undefined
        /\ activeInitiative = Undefined

\* C15 witness: clear() was called on a control that had bound its handlers in
\* earlier turns
C15_Witness ==
    /\ lastOp.op = "clear"
    /\ handleFunc = "std::DirectAnswer"
    /\ initiativeFunc = "std::askLineItem"
    /\ value = EmptyAnswers
    /\ focusQuestionId = Undefined

\* C12: calling updateAnswer(q, c) twice in succession leaves the AnswerStore
\* as it was after the first call: the same keys, the same answerId for each.
C12_IdempotentReanswer ==
    [][ ( /\ lastOp.op = "updateAnswer"
          /\ lastOp'.op = "updateAnswer"
          /\ lastOp'.args = lastOp.args ) =>
            /\ DOMAIN value' = DOMAIN value
            /\ \A q \in DOMAIN value : value'[q].answerId = value[q].answerId
      ]_vars

\* C12 witness: updateAnswer(headache, rarely) has just been called on a store
\* that also holds an answer for cough
C12_Witness ==
    /\ lastOp.op = "updateAnswer"
    /\ lastOp.args = << "headache", Str("rarely") >>
    /\ DOMAIN value = { "cough", "headache" }
    /\ value["headache"].answerId = Str("rarely")

\* C16: a handle() call that applies the built-in direct-answer handler writes
\* at most the entry of the question in focus when it is called and leaves the
\* entry of every other question as it was; when it returns it has written it.
C16_AnswerGoesToFocusedQuestion ==
    [][ (lastOp'.op = "handle" /\ lastOp'.applied = "std::DirectAnswer") =>
            /\ DOMAIN value' \subseteq DOMAIN value \cup { focusQuestionId }
            /\ \A q \in DOMAIN value \ { focusQuestionId } :
                   q \in DOMAIN value' /\ value'[q] = value[q]
            /\ lastOp'.ret = "void" => focusQuestionId \in DOMAIN value'
      ]_vars

\* C16 witness: the built-in handler recorded the yes choice for the question in
\* focus while the other question held an answer the host had stored
C16_Witness ==
    /\ lastOp.op = "handle"
    /\ lastOp.applied = "std::DirectAnswer"
    /\ lastOp.ret = "void"
    /\ canHandleInTurn = "true"
    /\ DOMAIN value = { "cough", "headache" }
    /\ value["cough"].answerId = Str("often")
    /\ value["headache"].answerId = Str("rarely")

\* the question in focus is not among the questions of the current content
FocusUnknown ==
    ~QuestionFound(getQuestionnaireContent(props), focusQuestionId)

\* C17: when the question in focus is absent from the current content,
\* canHandle() raises instead of returning false, and a handle() that applies
\* the built-in handler raises; the AnswerStore is left as it was.
C17_UnknownQuestionRaises ==
    [][ /\ (lastOp'.op = "canHandle" /\ focusQuestionId # Undefined /\ FocusUnknown) =>
             (lastOp'.ret = "threw" /\ value' = value)
        /\ (lastOp'.op = "handle" /\ handleFunc = "std::DirectAnswer" /\ FocusUnknown) =>
             (lastOp'.ret = "threw" /\ value' = value)
      ]_vars

\* C17 witness: the content lost its questions while cough was in focus and
\* answered; canHandle() raised in this turn and so did handle()
C17_Witness ==
    /\ lastOp.op = "handle"
    /\ lastOp.ret = "threw"
    /\ lastOp.applied = "std::DirectAnswer"
    /\ canHandleInTurn = "threw"
    /\ focusQuestionId = "cough"
    /\ props.questionnaireData.questions = << >>
    /\ "cough" \in DOMAIN value

\* C18: when more than one guard is true, canHandle() and canTakeInitiative()
\* return true, bind the first match, log the names of all the matches and
\* change no control state.
C18_AmbiguousMatchIsNotFatal ==
    [][ /\ ( /\ lastOp'.op = "canHandle"
             /\ ~InputGuardThrew(props, focusQuestionId, input)
             /\ Len(InputMatches(props, focusQuestionId, input)) > 1 ) =>
               /\ lastOp'.ret = "true"
               /\ handleFunc' = InputMatches(props, focusQuestionId, input)[1].name
               /\ lastOp'.logged = HandlerNames(InputMatches(props, focusQuestionId, input))
               /\ UNCHANGED << value, focusQuestionId, activeInitiative >>
        /\ ( /\ lastOp'.op = "canTakeInitiative"
             /\ Len(InitiativeMatches(props, value)) > 1 ) =>
               /\ lastOp'.ret = "true"
               /\ initiativeFunc' = InitiativeMatches(props, value)[1]
               /\ lastOp'.logged = InitiativeMatches(props, value)
               /\ UNCHANGED << value, focusQuestionId, activeInitiative >>
      ]_vars

\* C18 witness: the built-in handler and two custom handlers matched a yes; the
\* built-in one was bound and all three were named in the log
C18_Witness ==
    /\ lastOp.op = "canHandle"
    /\ lastOp.ret = "true"
    /\ Len(lastOp.logged) = 3
    /\ lastOp.logged[1] = "std::DirectAnswer"
    /\ handleFunc = "std::DirectAnswer"

\* the props of a control whose caller gave no completion, required or
\* answerConfirmationRequired
DefaultedProps ==
    { mergeWithDefaultProps(raw) :
        raw \in { r \in RawProps : /\ r.completion = Undefined
                                   /\ r.required = Undefined
                                   /\ r.answerConfirmationRequired = Undefined } }

\* C19: when the caller supplies none, completion returns true for every
\* state, required is true and answerConfirmationRequired is false.
C19_DefaultsWhenNoneSupplied ==
    props \in DefaultedProps =>
        /\ completion(props, value) = "true"
        /\ props.required = TRUE
        /\ props.answerConfirmationRequired = FALSE

\* C20: in a handle() call that returns, if the applied handler added an
\* initiative act, no initiative handler runs and initiativeFunc,
\* focusQuestionId and activeInitiative stay as they were; if it added none,
\* std::askLineItem is bound and applied once, after the handler's effect: its
\* act is the last and carries the answers the handler left.
C20_InitiativeStepDependsOnHandlerOutput ==
    [][ (lastOp'.op = "handle" /\ lastOp'.applied # Undefined /\ lastOp'.ret = "void") =>
          LET n == lastOp'.handlerActs
              handlerAddedInitiative == \E i \in 1..n : result'[i].initiative
          IN  IF handlerAddedInitiative
              THEN /\ ~lastOp'.tookInitiative
                   /\ Len(result') = n
                   /\ UNCHANGED << initiativeFunc, focusQuestionId, activeInitiative >>
              ELSE /\ lastOp'.tookInitiative
                   /\ Len(result') = n + 1
                   /\ result'[n + 1] =
                        AskQuestionAct(value', props.questionnaireData.questions[1].id)
                   /\ initiativeFunc' = "std::askLineItem"
                   /\ focusQuestionId' = props.questionnaireData.questions[1].id
                   /\ activeInitiative' = "AskQuestionAct"
      ]_vars

\* C20 witness: a custom handler added an initiative act on a control that had
\* never taken the initiative; the initiative step was skipped
C20_Witness ==
    /\ lastOp.op = "handle"
    /\ lastOp.ret = "void"
    /\ lastOp.applied = "custom::AffirmPrompt"
    /\ ~lastOp.tookInitiative
    /\ Len(result) = 1
    /\ result[1].initiative
    /\ initiativeFunc = Undefined
    /\ focusQuestionId = Undefined
    /\ activeInitiative = Undefined

\* C21: in a handle() call that records an answer and then takes the
\* initiative, the ask-question act is the last act and its answers are the
\* AnswerStore at the end of the call, the answer of this call included.
C21_ReactThenPrompt ==
    [][ ( /\ lastOp'.op = "handle"
          /\ lastOp'.applied = "std::DirectAnswer"
          /\ lastOp'.ret = "void"
          /\ lastOp'.tookInitiative ) =>
            LET act == result'[Len(result')] IN
            /\ act.name = "AskQuestionAct"
            /\ act.answers = value'
            /\ focusQuestionId \in DOMAIN act.answers
            /\ act.answers[focusQuestionId].answerId =
                 positiveAnswer(getQuestionnaireContent(props))
      ]_vars

\* C21 witness: the first answer of a questionnaire was recorded and the act
\* that asks the next question carries it
C21_Witness ==
    /\ lastOp.op = "handle"
    /\ lastOp.applied = "std::DirectAnswer"
    /\ lastOp.tookInitiative
    /\ canHandleInTurn = "true"
    /\ Len(result) = 1
    /\ DOMAIN result[1].answers = { "cough" }
    /\ result[1].answers = value

C24_NoFocusNoDirectAnswer ==
    focusQuestionId = Undefined =>
        /\ \A in \in Inputs :
               isPositiveAnswerWithoutValue(props, focusQuestionId, in) = "false"
        /\ (lastOp.op = "canHandle"
              /\ props.inputHandling.customHandlingFuncs = << >>) =>
               lastOp.ret = "false"
        /\ value = EmptyAnswers

\* C24 witness: after a clear() a yes was declined, although the built-in
\* handler had been bound in an earlier turn
C24_Witness ==
    /\ focusQuestionId = Undefined
    /\ lastOp.op = "canHandle"
    /\ lastOp.ret = "false"
    /\ input.feedback = "affirm"
    /\ handleFunc = "std::DirectAnswer"

\* the targets of the questions other than the given one
OtherTargets(content, question) ==
    UNION { content.questions[i].targets : i \in DOMAIN content.questions }
      \ question.targets

\* C25: with a question in focus, the built-in handler claims an input only
\* if its action is absent or among the question's actions and its target is
\* absent or among the question's targets; a yes without action and target
\* is claimed; a yes naming the target of another question is not.
C25_QualifierMatching ==
    LET content == getQuestionnaireContent(props) IN
    ( /\ lastOp.op = "canHandle"
      /\ lastOp.ret # "threw"
      /\ props.inputHandling.customHandlingFuncs = << >>
      /\ QuestionFound(content, focusQuestionId) ) =>
        LET question == getQuestionContentById(content, focusQuestionId) IN
        /\ lastOp.ret = "true" =>
             /\ input.action = Undefined \/ input.action \in question.actions
             /\ input.target = Undefined \/ input.target \in question.targets
        /\ ( /\ input.feedback = "affirm"
             /\ input.action = Undefined
             /\ input.target = Undefined ) => lastOp.ret = "true"
        /\ ( /\ input.feedback = "affirm"
             /\ input.target \in OtherTargets(content, question) ) =>
               lastOp.ret = "false"

\* C25 witness: a yes that names headache was declined while cough was in focus
C25_Witness ==
    /\ lastOp.op = "canHandle"
    /\ lastOp.ret = "false"
    /\ focusQuestionId = "cough"
    /\ input.feedback = "affirm"
    /\ input.target = "headache"

\* C26: with answerConfirmationRequired false no call emits a confirm-answer
\* act or makes one the active initiative, and no call but clear() removes
\* the answer of a question.
C26_BaselineLifecycle ==
    [][ ~props.answerConfirmationRequired =>
            /\ \A i \in DOMAIN result' : result'[i].name # "ConfirmQuestionnaireAnswer"
            /\ activeInitiative' # "ConfirmQuestionnaireAnswer"
            /\ lastOp'.op # "clear" => DOMAIN value \subseteq DOMAIN value'
      ]_vars

\* C26 witness: a turn that named the target of the focused question recorded
\* its answer and the control went on asking
C26_Witness ==
    /\ ~props.answerConfirmationRequired
    /\ lastOp.op = "handle"
    /\ lastOp.applied = "std::DirectAnswer"
    /\ lastOp.ret = "void"
    /\ "cough" \in DOMAIN value
    /\ activeInitiative = "AskQuestionAct"
    /\ Len(result) = 1
    /\ "cough" \in DOMAIN result[1].answers
    /\ input.target = "cough"

\* C27: updateAnswer(q, c) leaves one entry for q, holding c, and leaves the
\* entry of every other question, focusQuestionId and activeInitiative as
\* they were.
C27_OverwriteNeverAppend ==
    [][ lastOp'.op = "updateAnswer" =>
          LET q == lastOp'.args[1]
              c == lastOp'.args[2]
          IN  /\ DOMAIN value' = DOMAIN value \cup { q }
              /\ value'[q].answerId = c
              /\ \A other \in DOMAIN value \ { q } : value'[other] = value[other]
              /\ UNCHANGED << focusQuestionId, activeInitiative >>
      ]_vars

\* C27 witness: the host replaced the answer of the focused question while
\* the other question held an answer
C27_Witness ==
    /\ lastOp.op = "updateAnswer"
    /\ lastOp.args = << "cough", Str("rarely") >>
    /\ focusQuestionId = "cough"
    /\ DOMAIN value = { "cough", "headache" }
    /\ value["cough"].answerId = Str("rarely")
    /\ value["headache"].answerId = Str("often")

\* C28: canTakeInitiative() returns true exactly when the guard of an
\* initiative handler is true and then binds the first such handler;
\* takeInitiative() with no handler bound raises, adds no act and leaves the
\* state as it was.
C28_InitiativeResolutionPolicy ==
    [][ /\ lastOp'.op = "canTakeInitiative" =>
             /\ lastOp'.ret = "true" <=> wantsToAskLineItemQuestion(props, value)
             /\ lastOp'.ret = "true" => initiativeFunc' = standardInitiativeHandlers[1]
             /\ lastOp'.ret = "false" => initiativeFunc' = initiativeFunc
        /\ (lastOp'.op = "takeInitiative" /\ initiativeFunc = Undefined) =>
             /\ lastOp'.ret = "threw"
             /\ result' = << >>
             /\ UNCHANGED << value, focusQuestionId, activeInitiative >>
      ]_vars

\* C28 witness: takeInitiative() raised on a control with questions that had
\* never bound an initiative handler
C28_Witness ==
    /\ lastOp.op = "takeInitiative"
    /\ lastOp.ret = "threw"
    /\ initiativeFunc = Undefined
    /\ Len(props.questionnaireData.questions) = 2
    /\ input.feedback = "affirm"

\* C29: the first call of a turn has the outcome it has on a newly
\* constructed instance that holds the same AnswerStore, focusQuestionId and
\* activeInitiative: there handle() and takeInitiative() raise, add no act
\* and leave the state as it was.
C29_NoHiddenStateAcrossTurns ==
    [][ (lastOp.op = "beginTurn" /\ lastOp'.op \in { "handle", "takeInitiative" }) =>
            /\ lastOp'.ret = "threw"
            /\ result' = << >>
            /\ UNCHANGED << value, focusQuestionId, activeInitiative >>
      ]_vars

\* C30: every answer in the AnswerStore has the id of one of the choices of
\* the content as its answerId.
C30_AnswersAreChoiceIds ==
    \A q \in DOMAIN value :
        \E c \in ChoiceIds(getQuestionnaireContent(props)) :
            value[q].answerId = Str(c)

\* every question of the content has an entry in the AnswerStore
AllQuestionsAnswered ==
    \A i \in DOMAIN props.questionnaireData.questions :
        props.questionnaireData.questions[i].id \in DOMAIN value

\* the control did not handle a turn after the launch
TurnAfterLaunchDeclined ==
    /\ lastOp.op = "canHandle"
    /\ lastOp.ret # "true"
    /\ input # LaunchRequest

\* C23: if the control handles every yes turn after the launch, then
\* eventually every question has an entry in the AnswerStore.
C23_EveryQuestionEventuallyAnswered ==
    <>(AllQuestionsAnswered \/ TurnAfterLaunchDeclined)

\* C31: only a canHandle() that returns true changes the handler handle()
\* applies: a canHandle() that returns false, clear(), canTakeInitiative(),
\* takeInitiative(), the start of a turn and handle() itself leave it bound,
\* and handle() applies the handler that is bound.
C31_HandleAppliesLastBoundHandler ==
    [][ /\ handleFunc' # handleFunc =>
             /\ lastOp'.op = "canHandle"
             /\ lastOp'.ret = "true"
             /\ handleFunc' = InputMatches(props, focusQuestionId, input)[1].name
        /\ lastOp'.op = "handle" => lastOp'.applied = handleFunc
      ]_vars

\* C31 witness: handle() applied the custom handler bound in an earlier turn
\* although the canHandle() of this turn had returned false
C31_Witness ==
    /\ lastOp.op = "handle"
    /\ lastOp.ret = "void"
    /\ lastOp.applied = "custom::AffirmPrompt"
    /\ canHandleInTurn = "false"
    /\ input.feedback = "disaffirm"

\* the ids of the questions of the content
QuestionIds(content) ==
    { content.questions[i].id : i \in DOMAIN content.questions }

\* C33: focusQuestionId is undefined or the id of a question of the content,
\* and it is defined exactly when activeInitiative is.
C33_FocusAndInitiativeTogether ==
    /\ focusQuestionId \in { Undefined } \cup QuestionIds(getQuestionnaireContent(props))
    /\ focusQuestionId # Undefined <=> activeInitiative # Undefined

\* C33 witness: a question was asked again after clear() had reset the focus
C33_Witness ==
    /\ lastOp.op = "takeInitiative"
    /\ lastOp.ret = "void"
    /\ focusQuestionId = "cough"
    /\ activeInitiative = "AskQuestionAct"
    /\ handleFunc = "std::DirectAnswer"
    /\ value = EmptyAnswers

\* C34: a question that has an entry in the AnswerStore keeps an entry in
\* every step that is not a clear().
C34_AnswersMonotoneBetweenResets ==
    [][ \A q \in DOMAIN value : q \in DOMAIN value' \/ lastOp'.op = "clear" ]_vars

\* C34 witness: both questions hold an answer and the control has asked again
C34_Witness ==
    /\ DOMAIN value = { "cough", "headache" }
    /\ lastOp.op \in { "handle", "takeInitiative" }
    /\ lastOp.ret = "void"
    /\ lastOp.tookInitiative

\* C36: with an empty question list canTakeInitiative() returns true and a
\* takeInitiative() that applies the bound handler raises, adds no act and
\* leaves focusQuestionId, activeInitiative and the AnswerStore as they were.
C36_EmptyQuestionListRaises ==
    [][ Len(getQuestionnaireContent(props).questions) = 0 =>
          /\ lastOp'.op = "canTakeInitiative" => lastOp'.ret = "true"
          /\ (lastOp'.op = "takeInitiative" /\ initiativeFunc # Undefined) =>
               /\ lastOp'.ret = "threw"
               /\ result' = << >>
               /\ UNCHANGED << value, focusQuestionId, activeInitiative >>
      ]_vars

\* C36 witness: takeInitiative() raised with the standard handler bound and
\* no question to ask
C36_Witness ==
    /\ lastOp.op = "takeInitiative"
    /\ lastOp.ret = "threw"
    /\ initiativeFunc = "std::askLineItem"
    /\ Len(props.questionnaireData.questions) = 0
    /\ focusQuestionId = Undefined
    /\ activeInitiative = Undefined

\* C32: the keys of the AnswerStore are ids of questions of the content, and
\* a question gets an entry only by the handle() of a turn that started with
\* that question in focus.
C32_EntriesOnlyForFocusedQuestion ==
    [][ /\ DOMAIN value' \subseteq QuestionIds(getQuestionnaireContent(props))
        /\ \A q \in DOMAIN value' \ DOMAIN value :
               /\ lastOp.op = "canHandle"
               /\ lastOp'.op = "handle"
               /\ q = focusQuestionId
      ]_vars

\* C32 witness: cough got its entry in a turn that named it while it was in
\* focus; headache has none
C32_Witness ==
    /\ lastOp.op = "handle"
    /\ lastOp.ret = "void"
    /\ canHandleInTurn = "true"
    /\ input.target = "cough"
    /\ DOMAIN value = { "cough" }

\* handle() is called right after a canHandle() that returned true and the
\* handler it applies adds no initiative act
HandledTurnWithoutInitiativeAct ==
    /\ lastOp.op = "canHandle"
    /\ lastOp.ret = "true"
    /\ lastOp'.op = "handle"
    /\ \A i \in 1..lastOp'.handlerActs : ~result'[i].initiative

\* handle() returns and its result ends with the only ask-question act
EndsWithOneAskQuestionAct ==
    /\ lastOp'.ret = "void"
    /\ Len(result') = lastOp'.handlerActs + 1
    /\ result'[Len(result')].name = "AskQuestionAct"
    /\ Cardinality({ i \in DOMAIN result' : result'[i].name = "AskQuestionAct" }) = 1

\* C35 as stated: with 'required' true canTakeInitiative() always returns
\* true, and every handled turn whose handler added no initiative act ends
\* with exactly one ask-question act.
C35_AlwaysAsksAgain ==
    [][ props.required =>
          /\ lastOp'.op = "canTakeInitiative" => lastOp'.ret = "true"
          /\ HandledTurnWithoutInitiativeAct => EndsWithOneAskQuestionAct
      ]_vars

\* C35 amended: with 'required' true canTakeInitiative() always returns true,
\* and every handled turn whose handler added no initiative act ends with
\* exactly one ask-question act if the content has a question; if it has
\* none, handle() raises and no ask-question act is added.
C35_AlwaysAsksAgainIfQuestions ==
    [][ props.required =>
          /\ lastOp'.op = "canTakeInitiative" => lastOp'.ret = "true"
          /\ HandledTurnWithoutInitiativeAct =>
               IF Len(getQuestionnaireContent(props).questions) > 0
               THEN EndsWithOneAskQuestionAct
               ELSE /\ lastOp'.ret = "threw"
                    /\ \A i \in DOMAIN result' : result'[i].name # "AskQuestionAct"
      ]_vars

\* C35 witness: with an answer recorded, a turn handled by a custom handler
\* that added a content act ended with the ask-question act
C35_Witness ==
    /\ props.required
    /\ lastOp.op = "handle"
    /\ lastOp.ret = "void"
    /\ lastOp.applied = "custom::Any"
    /\ canHandleInTurn = "true"
    /\ "cough" \in DOMAIN value
    /\ Len(result) = 2
    /\ result[2].name = "AskQuestionAct"

====
